---- MODULE Spec2Model ----
(***************************************************************************)
(* Model of src/html_splitter.py: split_html_message and its helpers.      *)
(* A string is a sequence of one-character strings.  One call of           *)
(* split_html_message is a run of the state machine: the call itself       *)
(* (normalisation, the short-message return, tokenisation), one step per   *)
(* token of the for loop, one step per iteration of the text while loop,   *)
(* and the final filter.                                                   *)
(***************************************************************************)
EXTENDS Integers, Sequences, FiniteSets, TLC

(* ----------------------------- bounds ---------------------------------- *)
MaxPieces == 3
MaxChars == 9
MaxSpin == 2

(* ------------------------- Python string helpers ----------------------- *)
MinOf(S) == CHOOSE x \in S : \A y \in S : x <= y

MaxOf(S) == CHOOSE x \in S : \A y \in S : x >= y

RECURSIVE Concat(_)
Concat(ss) == IF ss = <<>> THEN <<>> ELSE Head(ss) \o Concat(Tail(ss))

\* characters str.split() treats as separators (those of the model's alphabet)
IsSpace(c) == c \in {" ", "\n", "\t"}

\* s.strip("<> ")
Strip(s) ==
    LET keep == {k \in 1..Len(s) : s[k] \notin {"<", ">", " "}}
    IN  IF keep = {} THEN <<>> ELSE SubSeq(s, MinOf(keep), MaxOf(keep))

\* s.startswith(p) for a one-character p
StartsWith(s, c) == Len(s) > 0 /\ s[1] = c

\* s.endswith(p) for a one-character p
EndsWith(s, c) == Len(s) > 0 /\ s[Len(s)] = c

\* s.split() is the empty list: s holds no word
NoWord(s) == \A k \in 1..Len(s) : IsSpace(s[k])

\* s.split()[0]
FirstWord(s) ==
    LET b == MinOf({k \in 1..Len(s) : ~IsSpace(s[k])})
        after == {k \in b..Len(s) : IsSpace(s[k])}
        e == IF after = {} THEN Len(s) ELSE MinOf(after) - 1
    IN  SubSeq(s, b, e)

LowerChar(c) ==
    CASE c = "B" -> "b"
      [] c = "E" -> "e"
      [] c = "M" -> "m"
      [] OTHER -> c

\* s.lower()
Lower(s) == [k \in 1..Len(s) |-> LowerChar(s[k])]

\* s.rfind(c): 0-based index of the last c, -1 when absent
RFind(s, c) ==
    LET at == {k \in 1..Len(s) : s[k] = c}
    IN  IF at = {} THEN -1 ELSE MaxOf(at) - 1

\* s[:n], n of either sign
Prefix(s, n) ==
    IF n >= 0 THEN SubSeq(s, 1, IF n < Len(s) THEN n ELSE Len(s))
    ELSE SubSeq(s, 1, Len(s) + n)

\* s[n:], n >= 0
Suffix(s, n) == SubSeq(s, n + 1, Len(s))

(* ------------------------------ tag tables ----------------------------- *)
ALLOWED_TAGS ==
    { <<"b">>, <<"i">>, <<"u">>, <<"s">>, <<"a">>,
      <<"c", "o", "d", "e">>, <<"p", "r", "e">>,
      <<"t", "g", "-", "s", "p", "o", "i", "l", "e", "r">> }

TAG_NORMALIZATION ==
    (<<"s", "t", "r", "o", "n", "g">> :> <<"b">>) @@
    (<<"e", "m">> :> <<"i">>) @@
    (<<"i", "n", "s">> :> <<"u">>) @@
    (<<"d", "e", "l">> :> <<"s">>) @@
    (<<"s", "t", "r", "i", "k", "e">> :> <<"s">>)

VOID_TAGS == { <<"b", "r">> }

(* ------------------------------ helpers -------------------------------- *)
\* a stack entry is <<tag_name, full_tag>>
RECURSIVE get_closing_str(_)
get_closing_str(stack) ==
    IF stack = <<>> THEN <<>>
    ELSE <<"<", "/">> \o stack[Len(stack)][1] \o <<">">>
         \o get_closing_str(SubSeq(stack, 1, Len(stack) - 1))

RECURSIVE get_opening_str(_)
get_opening_str(stack) ==
    IF stack = <<>> THEN <<>> ELSE Head(stack)[2] \o get_opening_str(Tail(stack))

\* the tag text with "<", ">" and blanks stripped and a leading "/" dropped
CleanOf(token) ==
    LET clean == Strip(token)
    IN  IF StartsWith(clean, "/") THEN Tail(clean) ELSE clean

\* clean.split()[0] raises IndexError
TagRaises(token) == NoWord(CleanOf(token))

normalize_tag_case_sensitive(token) ==
    LET is_closing == StartsWith(Strip(token), "/")
        clean == CleanOf(token)
        tag_name == FirstWord(clean)
    IN  IF tag_name \in DOMAIN TAG_NORMALIZATION
        THEN IF is_closing
             THEN <<"<", "/">> \o TAG_NORMALIZATION[tag_name] \o <<">">>
             ELSE <<"<">> \o TAG_NORMALIZATION[tag_name]
                  \o Suffix(clean, Len(tag_name)) \o <<">">>
        ELSE token

normalize_tag(token) ==
    LET is_closing == StartsWith(Strip(token), "/")
        clean == CleanOf(token)
        tag_name == Lower(FirstWord(clean))
    IN  IF tag_name \in DOMAIN TAG_NORMALIZATION
        THEN IF is_closing
             THEN <<"<", "/">> \o TAG_NORMALIZATION[tag_name] \o <<">">>
             ELSE <<"<">> \o TAG_NORMALIZATION[tag_name]
                  \o Suffix(clean, Len(tag_name)) \o <<">">>
        ELSE token

\* <<tag_name, is_closing, is_void>>
extract_tag_info(token) ==
    LET is_closing == StartsWith(Strip(token), "/")
        clean == CleanOf(token)
        word == Lower(FirstWord(clean))
        tag_name == IF word \in DOMAIN TAG_NORMALIZATION
                    THEN TAG_NORMALIZATION[word] ELSE word
    IN  <<tag_name, is_closing, tag_name \in VOID_TAGS \/ EndsWith(clean, "/")>>

\* positions where the pattern <[^>]+> matches
TagStarts(s) ==
    {k \in 1..Len(s) : /\ s[k] = "<"
                       /\ k + 1 <= Len(s)
                       /\ s[k + 1] # ">"
                       /\ \E j \in (k + 2)..Len(s) : s[j] = ">"}

\* re.split(r"(<[^>]+>)", s): text, tag, text, ..., text
RECURSIVE Tokenize(_)
Tokenize(s) ==
    IF TagStarts(s) = {} THEN <<s>>
    ELSE LET b == MinOf(TagStarts(s))
             e == MinOf({j \in (b + 2)..Len(s) : s[j] = ">"})
         IN  <<SubSeq(s, 1, b - 1), SubSeq(s, b, e)>> \o Tokenize(Suffix(s, e))

\* normalize_html raises: some token that starts with "<" has no tag name
NormalizeRaises(s) ==
    \E k \in 1..Len(Tokenize(s)) :
        StartsWith(Tokenize(s)[k], "<") /\ TagRaises(Tokenize(s)[k])

normalize_html(s) ==
    LET tokens == Tokenize(s)
    IN  Concat([k \in 1..Len(tokens) |->
                  IF StartsWith(tokens[k], "<")
                  THEN normalize_tag(tokens[k]) ELSE tokens[k]])

(* ------------------------------- inputs -------------------------------- *)
\* markup is built from these pieces; the tokenizer sees only characters
Pieces ==
    { <<"<", "b", ">">>, <<"<", "/", "b", ">">>, <<"<", "i", ">">>,
      <<"<", "s", "t", "r", "o", "n", "g", ">">>,
      <<"a", "a">>, <<" ">>, <<"\n">>, <<"<">>, <<">">>, <<"/">> }

PieceSeqs == UNION {[1..k -> Pieces] : k \in 0..MaxPieces}

BoundedInputs == {<<Concat(ps), n>> : ps \in PieceSeqs, n \in 1..MaxChars}

\* "<b><i>alpha beta gamma</i></b>"
NestedExample ==
    <<"<", "b", ">", "<", "i", ">",
      "a", "l", "p", "h", "a", " ", "b", "e", "t", "a", " ",
      "g", "a", "m", "m", "a",
      "<", "/", "i", ">", "<", "/", "b", ">">>

\* "text &amp; more text"
EntityExample ==
    <<"t", "e", "x", "t", " ", "&", "a", "m", "p", ";", " ",
      "m", "o", "r", "e", " ", "t", "e", "x", "t">>

\* "aaaaa<b>x</b>"
OverheadExample ==
    <<"a", "a", "a", "a", "a", "<", "b", ">", "x", "<", "/", "b", ">">>

\* "<b>xxxxx<i>a b c d e f</i></b>"
NegativeSpaceExample ==
    <<"<", "b", ">", "x", "x", "x", "x", "x", "<", "i", ">",
      "a", " ", "b", " ", "c", " ", "d", " ", "e", " ", "f",
      "<", "/", "i", ">", "<", "/", "b", ">">>

\* "<EM>aa bb</EM><br/>cc"
AliasExample ==
    <<"<", "E", "M", ">", "a", "a", " ", "b", "b", "<", "/", "E", "M", ">",
      "<", "b", "r", "/", ">", "c", "c">>

\* "<b>aa <i>bb</i> cc</b><x>dd</x>"
MixedExample ==
    <<"<", "b", ">", "a", "a", " ", "<", "i", ">", "b", "b", "<", "/", "i", ">",
      " ", "c", "c", "<", "/", "b", ">", "<", "x", ">", "d", "d",
      "<", "/", "x", ">">>

\* "aa\tbbbb cc"
TabExample == <<"a", "a", "\t", "b", "b", "b", "b", " ", "c", "c">>

\* "<\nem>"
NewlineAliasExample == <<"<", "\n", "e", "m", ">">>

\* "<\n\n\n\n\nstrike>"
StrikeExample ==
    <<"<", "\n", "\n", "\n", "\n", "\n", "s", "t", "r", "i", "k", "e", ">">>

\* "<i><b"
IncompleteTagExample == <<"<", "i", ">", "<", "b">>

\* "<x>aaaaaaaaaaaaaa"
LongWordExample ==
    <<"<", "x", ">", "a", "a", "a", "a", "a", "a", "a", "a", "a", "a", "a", "a",
      "a", "a">>

Examples ==
    ({NestedExample} \X {15, 20, 30})
    \cup ({EntityExample} \X (1..21))
    \cup ({OverheadExample} \X {8, 12, 14})
    \cup ({NegativeSpaceExample} \X {15, 31})
    \cup ({AliasExample} \X {10, 14, 19, 22})
    \cup ({MixedExample} \X {16, 20, 24, 32})
    \cup ({TabExample} \X {4, 6, 11})
    \cup ({NewlineAliasExample} \X {3, 6})
    \cup ({StrikeExample} \X {7, 13})
    \cup ({IncompleteTagExample} \X {4, 6})
    \cup ({LongWordExample} \X {12, 13, 15})

Inputs == BoundedInputs \cup Examples

(* ------------------------------- state --------------------------------- *)
VARIABLES
    html,           \* the argument html
    max_chars,      \* the argument max_chars
    pc,             \* "start", "loop", "text", "done" (returned), "raised"
    tokens,         \* re.split of the normalized markup
    tk,             \* position of the for loop in tokens (1-based)
    current_chunk,
    tag_stack,
    chunks,
    text,           \* the remaining text of the while loop
    result,         \* the returned list
    spins,          \* while iterations so far that changed nothing but chunks
    chunk_pre,      \* history: the stack whose opening string seeded current_chunk
    chunk_parts,    \* history: the tokens and text pieces appended to current_chunk
    chunk_log,      \* history: per element of chunks, its pre, parts and closed stack
    result_log      \* history: chunk_log filtered like result

\* the state of src/bot.py: the messages table, Telegram, and handle_message
VARIABLES
    messages,        \* the rows of table messages
    last_rowid,      \* the AUTOINCREMENT counter of column id
    clock,           \* Telegram's time, in seconds
    updates,         \* updates sent to the bot and not yet handled, oldest first
    last_message_id, \* per message-id counter of Telegram, the last id it gave out
    posted,          \* the user messages posted so far, with their dates
    handler_pc,      \* "idle", or "awaiting" the model inside handle_message
    message,         \* update.effective_message of the running handler
    context_messages,\* get_context(db_conn) of the running handler
    replies,         \* history: the replies sent by message.reply_text
    prompts,         \* history: the calls of the model
    handled          \* history: the updates handle_message has taken

split_vars == <<html, max_chars, pc, tokens, tk, current_chunk, tag_stack, chunks,
                text, result, spins, chunk_pre, chunk_parts, chunk_log,
                result_log>>

bot_vars == <<messages, last_rowid, clock, updates, last_message_id, posted,
              handler_pc, message, context_messages, replies, prompts, handled>>

vars == <<split_vars, bot_vars>>

\* a Message that is no message (no handler is running)
NoMessage == [message_id |-> 0, chat_id |-> 0, text |-> <<>>, date |-> 0]

\* main(): init_db() has created an empty table, no update has arrived
BotStart ==
    /\ messages = {}
    /\ last_rowid = 0
    /\ clock = 0
    /\ updates = <<>>
    /\ last_message_id = [scope \in 0..4 |-> 0]
    /\ posted = {}
    /\ handler_pc = "idle"
    /\ message = NoMessage
    /\ context_messages = <<>>
    /\ replies = <<>>
    /\ prompts = <<>>
    /\ handled = <<>>

Init ==
    /\ \E in \in Inputs : html = in[1] /\ max_chars = in[2]
    /\ pc = "start"
    /\ tokens = <<>>
    /\ tk = 1
    /\ current_chunk = <<>>
    /\ tag_stack = <<>>
    /\ chunks = <<>>
    /\ text = <<>>
    /\ result = <<>>
    /\ spins = 0
    /\ chunk_pre = <<>>
    /\ chunk_parts = <<>>
    /\ chunk_log = <<>>
    /\ result_log = <<>>
    /\ BotStart

LogEntry(pre, parts, post) == [pre |-> pre, parts |-> parts, post |-> post]

NonEmpty(seq) == SelectSeq(seq, LAMBDA x : x # <<>>)

(* ------------------------------ the call ------------------------------- *)
\* normalize_html raises IndexError out of split_html_message
CallRaises ==
    /\ pc = "start"
    /\ NormalizeRaises(html)
    /\ pc' = "raised"
    /\ UNCHANGED <<html, max_chars, tokens, tk, current_chunk, tag_stack, chunks,
                   text, result, spins, chunk_pre, chunk_parts, chunk_log,
                   result_log>>
    /\ UNCHANGED bot_vars

CheckedLengthRaw == Len(html)

\* len(html) after "html = normalize_html(html)"
CheckedLength == Len(normalize_html(html))

\* the normalized markup fits: return [html]
ReturnWhole ==
    /\ pc = "start"
    /\ ~NormalizeRaises(html)
    /\ CheckedLength <= max_chars
    /\ result' = <<normalize_html(html)>>
    /\ result_log' = <<LogEntry(<<>>, NonEmpty(Tokenize(normalize_html(html))), <<>>)>>
    /\ pc' = "done"
    /\ UNCHANGED <<html, max_chars, tokens, tk, current_chunk, tag_stack, chunks,
                   text, spins, chunk_pre, chunk_parts, chunk_log>>
    /\ UNCHANGED bot_vars

\* tokenize and enter the for loop
StartSplit ==
    /\ pc = "start"
    /\ ~NormalizeRaises(html)
    /\ CheckedLength > max_chars
    /\ tokens' = Tokenize(normalize_html(html))
    /\ pc' = "loop"
    /\ UNCHANGED <<html, max_chars, tk, current_chunk, tag_stack, chunks, text,
                   result, spins, chunk_pre, chunk_parts, chunk_log, result_log>>
    /\ UNCHANGED bot_vars

(* ----------------------------- the for loop ---------------------------- *)
Token == tokens[tk]

\* "if not token: continue"
SkipEmpty ==
    /\ pc = "loop"
    /\ tk <= Len(tokens)
    /\ Token = <<>>
    /\ tk' = tk + 1
    /\ UNCHANGED <<html, max_chars, pc, tokens, current_chunk, tag_stack, chunks,
                   text, result, spins, chunk_pre, chunk_parts, chunk_log,
                   result_log>>
    /\ UNCHANGED bot_vars

\* does appending the tag (plus the closing tail) overflow the chunk?
TagOverflows(chunk, token, stack) ==
    Len(chunk) + Len(token) + Len(get_closing_str(stack)) > max_chars

PopNone(stack, tag_name) == stack

\* tag_stack.pop(tg) for the topmost entry named tag_name, if any
PopNearest(stack, tag_name) ==
    LET at == {k \in 1..Len(stack) : stack[k][1] = tag_name}
    IN  IF at = {} THEN stack
        ELSE SubSeq(stack, 1, MaxOf(at) - 1) \o SubSeq(stack, MaxOf(at) + 1, Len(stack))

ApplyTagPopTop(stack, token) ==
    LET info == extract_tag_info(token)
    IN  IF info[1] \in ALLOWED_TAGS
        THEN IF info[2] THEN SubSeq(stack, 1, Len(stack) - 1)
             ELSE IF ~info[3] THEN Append(stack, <<info[1], token>>)
             ELSE stack
        ELSE stack

\* the stack after a tag token
ApplyTag(stack, token) ==
    LET info == extract_tag_info(token)
    IN  IF info[1] \in ALLOWED_TAGS
        THEN IF info[2] THEN PopNearest(stack, info[1])
             ELSE IF ~info[3] THEN Append(stack, <<info[1], token>>)
             ELSE stack
        ELSE stack

\* a token that starts with "<"
TagToken ==
    /\ pc = "loop"
    /\ tk <= Len(tokens)
    /\ Token # <<>>
    /\ StartsWith(Token, "<")
    /\ IF TagRaises(Token)
       THEN /\ pc' = "raised"
            /\ UNCHANGED <<tk, current_chunk, tag_stack, chunks, chunk_pre,
                           chunk_parts, chunk_log>>
       ELSE /\ IF TagOverflows(current_chunk, Token, tag_stack)
               THEN /\ chunks' = Append(chunks, current_chunk \o get_closing_str(tag_stack))
                    /\ current_chunk' = get_opening_str(tag_stack) \o Token
                    /\ chunk_log' = Append(chunk_log,
                                           LogEntry(chunk_pre, chunk_parts, tag_stack))
                    /\ chunk_pre' = tag_stack
                    /\ chunk_parts' = <<Token>>
               ELSE /\ current_chunk' = current_chunk \o Token
                    /\ chunk_parts' = Append(chunk_parts, Token)
                    /\ UNCHANGED <<chunks, chunk_log, chunk_pre>>
            /\ tag_stack' = ApplyTag(tag_stack, Token)
            /\ tk' = tk + 1
            /\ pc' = "loop"
    /\ UNCHANGED <<html, max_chars, tokens, text, result, spins, result_log>>
    /\ UNCHANGED bot_vars

\* "text = token"
TextToken ==
    /\ pc = "loop"
    /\ tk <= Len(tokens)
    /\ Token # <<>>
    /\ ~StartsWith(Token, "<")
    /\ text' = Token
    /\ pc' = "text"
    /\ UNCHANGED <<html, max_chars, tokens, tk, current_chunk, tag_stack, chunks,
                   result, spins, chunk_pre, chunk_parts, chunk_log, result_log>>
    /\ UNCHANGED bot_vars

(* ---------------------------- the while loop --------------------------- *)
MinChunk == 10

available_space == max_chars - Len(current_chunk) - Len(get_closing_str(tag_stack))

\* candidate = text[:available_space]
Candidate == Prefix(text, available_space)

SplitIdxSpaceFirst(txt, space, chunk, stack) ==
    LET cand == Prefix(txt, space)
        sp == RFind(cand, " ")
        found == IF sp = -1 THEN RFind(cand, "\n") ELSE sp
    IN  IF found = -1
        THEN IF space < MinChunk /\ Len(chunk) > Len(get_opening_str(stack))
             THEN -1
             ELSE space
        ELSE found + 1

SplitIdxNoDefer(txt, space, chunk, stack) ==
    LET cand == Prefix(txt, space)
        nl == RFind(cand, "\n")
        found == IF nl = -1 THEN RFind(cand, " ") ELSE nl
    IN  IF found = -1 THEN space ELSE found + 1

SplitIdxBeforeSeparator(txt, space, chunk, stack) ==
    LET candidate == Prefix(txt, space)
        nl == RFind(candidate, "\n")
        found == IF nl = -1 THEN RFind(candidate, " ") ELSE nl
    IN  IF found = -1
        THEN IF space < MinChunk /\ Len(chunk) > Len(get_opening_str(stack))
             THEN -1
             ELSE space
        ELSE found

\* the cut index chosen for txt when it does not fit into space
SplitIdx(txt, space, chunk, stack) ==
    LET candidate == Prefix(txt, space)
        nl == RFind(candidate, "\n")
        found == IF nl = -1 THEN RFind(candidate, " ") ELSE nl
    IN  IF found = -1
        THEN IF space < MinChunk /\ Len(chunk) > Len(get_opening_str(stack))
             THEN -1
             ELSE space
        ELSE found + 1

\* the text carried over after a cut at idx > 0: text[split_idx:]
RemainderTrimmed(txt, idx) ==
    LET rest == Suffix(txt, idx)
        word == {k \in 1..Len(rest) : ~IsSpace(rest[k])}
    IN  IF word = {} THEN <<>> ELSE Suffix(rest, MinOf(word) - 1)

Remainder(txt, idx) == Suffix(txt, idx)

\* the whole remaining text fits
TextFits ==
    /\ pc = "text"
    /\ text # <<>>
    /\ Len(text) <= available_space
    /\ current_chunk' = current_chunk \o text
    /\ chunk_parts' = Append(chunk_parts, text)
    /\ text' = <<>>
    /\ UNCHANGED <<html, max_chars, pc, tokens, tk, tag_stack, chunks, result,
                   spins, chunk_pre, chunk_log, result_log>>
    /\ UNCHANGED bot_vars

\* "while text" is false: back to the for loop
TextDone ==
    /\ pc = "text"
    /\ text = <<>>
    /\ pc' = "loop"
    /\ tk' = tk + 1
    /\ UNCHANGED <<html, max_chars, tokens, current_chunk, tag_stack, chunks, text,
                   result, spins, chunk_pre, chunk_parts, chunk_log, result_log>>
    /\ UNCHANGED bot_vars

\* the iteration leaves text, current_chunk and tag_stack as they were
NoProgress(idx) == idx <= 0 /\ current_chunk = get_opening_str(tag_stack)

\* the text does not fit: cut it and close the chunk
TextCut ==
    /\ pc = "text"
    /\ text # <<>>
    /\ Len(text) > available_space
    /\ LET split_idx == SplitIdx(text, available_space, current_chunk, tag_stack)
           piece == IF split_idx > 0 THEN Prefix(text, split_idx) ELSE <<>>
       IN  /\ NoProgress(split_idx) => spins < MaxSpin
           /\ spins' = IF NoProgress(split_idx) THEN spins + 1 ELSE spins
           /\ text' = IF split_idx > 0 THEN Remainder(text, split_idx) ELSE text
           /\ chunks' = Append(chunks, current_chunk \o piece
                                       \o get_closing_str(tag_stack))
           /\ chunk_log' = Append(chunk_log,
                                  LogEntry(chunk_pre,
                                           IF split_idx > 0
                                           THEN Append(chunk_parts, piece)
                                           ELSE chunk_parts,
                                           tag_stack))
    /\ current_chunk' = get_opening_str(tag_stack)
    /\ chunk_pre' = tag_stack
    /\ chunk_parts' = <<>>
    /\ UNCHANGED <<html, max_chars, pc, tokens, tk, tag_stack, result, result_log>>
    /\ UNCHANGED bot_vars

(* ------------------------------ the return ----------------------------- *)
KeptAll(cs) == 1..Len(cs)

\* the indices of chunks the final filter keeps
Kept(cs) == {k \in 1..Len(cs) : cs[k] # <<>> /\ cs[k] # get_opening_str(<<>>)}

RECURSIVE Filter(_, _, _)
Filter(seq, keep, k) ==
    IF k > Len(seq) THEN <<>>
    ELSE (IF k \in keep THEN <<seq[k]>> ELSE <<>>) \o Filter(seq, keep, k + 1)

\* the for loop is over: append the last chunk and filter
Return ==
    /\ pc = "loop"
    /\ tk > Len(tokens)
    /\ LET all == IF current_chunk # <<>>
                  THEN Append(chunks, current_chunk \o get_closing_str(tag_stack))
                  ELSE chunks
           log == IF current_chunk # <<>>
                  THEN Append(chunk_log, LogEntry(chunk_pre, chunk_parts, tag_stack))
                  ELSE chunk_log
       IN  /\ chunks' = all
           /\ chunk_log' = log
           /\ result' = Filter(all, Kept(all), 1)
           /\ result_log' = Filter(log, Kept(all), 1)
    /\ pc' = "done"
    /\ UNCHANGED <<html, max_chars, tokens, tk, current_chunk, tag_stack, text,
                   spins, chunk_pre, chunk_parts>>
    /\ UNCHANGED bot_vars

Next ==
    \/ CallRaises
    \/ ReturnWhole
    \/ StartSplit
    \/ SkipEmpty
    \/ TagToken
    \/ TextToken
    \/ TextFits
    \/ TextDone
    \/ TextCut
    \/ Return

Spec == Init /\ [][Next]_vars

(* ======================= properties of the splitter ==================== *)
Returned == pc = "done"

\* a returned chunk rebuilt from its history: reopened tags, real pieces, closing tail
ChunkText(e) == get_opening_str(e.pre) \o Concat(e.parts) \o get_closing_str(e.post)

RECURSIVE AllParts(_)
AllParts(log) == IF log = <<>> THEN <<>> ELSE Head(log).parts \o AllParts(Tail(log))

HasSpace(s) == \E k \in 1..Len(s) : IsSpace(s[k])

\* the chunk's real content is one token: a tag (anything the loop handles as
\* a tag) or one word without a break point
SingleToken(e) ==
    /\ Len(e.parts) = 1
    /\ StartsWith(e.parts[1], "<") \/ ~HasSpace(e.parts[1])

\* C1: every returned chunk has length <= max_chars unless its entire real
\* content is one unsplittable token (a single tag or a single word).
C1_SizeBound ==
    Returned =>
        \A k \in 1..Len(result) :
            Len(result[k]) <= max_chars \/ SingleToken(result_log[k])

\* C2: the returned chunks are their reopened tags, real pieces and closing
\* tail, and the real pieces of all chunks, in order, are the normalized
\* markup: nothing lost, nothing duplicated.
C2_ContentPreserved ==
    Returned =>
        /\ Len(result_log) = Len(result)
        /\ \A k \in 1..Len(result) : result[k] = ChunkText(result_log[k])
        /\ Concat(AllParts(result_log)) = normalize_html(html)

\* a split result in which some chunk was closed and reopened with tags and
\* a text run was cut after a blank
C2_Witness ==
    /\ Returned
    /\ Len(result) >= 3
    /\ \E k \in 2..Len(result) :
          /\ result_log[k].pre # <<>>
          /\ result_log[k - 1].post # <<>>
          /\ result_log[k - 1].parts # <<>>
          /\ EndsWith(result_log[k - 1].parts[Len(result_log[k - 1].parts)], " ")

(* ------------------------------ balance -------------------------------- *)
\* the tag tokens of a string parsed on its own
TagsOf(s) ==
    LET toks == Tokenize(s)
    IN  [k \in 1..(Len(toks) \div 2) |-> toks[2 * k]]

\* how many tags of s are opening (closing = FALSE) or closing tags named name
CountTags(s, name, closing) ==
    Cardinality({k \in 1..Len(TagsOf(s)) :
                    /\ ~TagRaises(TagsOf(s)[k])
                    /\ extract_tag_info(TagsOf(s)[k])[1] = name
                    /\ extract_tag_info(TagsOf(s)[k])[2] = closing
                    /\ closing \/ ~extract_tag_info(TagsOf(s)[k])[3]})

NamesOf(s) ==
    {extract_tag_info(TagsOf(s)[k])[1] :
        k \in {j \in 1..Len(TagsOf(s)) : ~TagRaises(TagsOf(s)[j])}}

Balanced(s) ==
    \A name \in NamesOf(s) : CountTags(s, name, FALSE) = CountTags(s, name, TRUE)

\* the tags from position k on are void tags or allowed tags, each closing
\* tag closes an open tag of its name, and none of the names in open stays open
RECURSIVE TagsMatch(_, _, _)
TagsMatch(tags, k, open) ==
    IF k > Len(tags) THEN open = <<>>
    ELSE /\ ~TagRaises(tags[k])
         /\ LET info == extract_tag_info(tags[k])
                at == {j \in 1..Len(open) : open[j] = info[1]}
            IN  IF info[2]
                THEN /\ info[1] \in ALLOWED_TAGS
                     /\ at # {}
                     /\ TagsMatch(tags, k + 1,
                                  SubSeq(open, 1, MaxOf(at) - 1)
                                  \o SubSeq(open, MaxOf(at) + 1, Len(open)))
                ELSE IF info[3] THEN TagsMatch(tags, k + 1, open)
                ELSE /\ info[1] \in ALLOWED_TAGS
                     /\ TagsMatch(tags, k + 1, Append(open, info[1]))

\* markup whose text runs hold no "<" or ">" and whose tags match
WellFormed(s) ==
    /\ \A k \in 1..Len(Tokenize(s)) :
          k % 2 = 1 => \A j \in 1..Len(Tokenize(s)[k]) :
                          Tokenize(s)[k][j] \notin {"<", ">"}
    /\ TagsMatch(TagsOf(s), 1, <<>>)

C4_TextLoopProgress ==
    [][(pc = "text" /\ pc' = "text" /\ chunks' # chunks) =>
          \/ Len(text') < Len(text)
          \/ Len(current_chunk') < Len(current_chunk)]_vars

\* C5: split_html_message never raises.
C5_NeverRaises == pc # "raised"

(* ---------------------------- empty chunks ----------------------------- *)
\* C6 as stated: no returned chunk is the empty string, for every input.
C6_NoEmptyChunk ==
    Returned => \A k \in 1..Len(result) : result[k] # <<>>

\* C6 amended: for every non-empty markup string no returned chunk is the
\* empty string; the empty markup string returns the single chunk "".
C6_NoEmptyChunkNonEmptyInput ==
    Returned =>
        IF html = <<>> THEN result = << <<>> >>
        ELSE \A k \in 1..Len(result) : result[k] # <<>>

\* the loop produced an empty chunk (a first tag that did not fit the empty
\* buffer) and the returned list is without it
C6_Witness ==
    /\ Returned
    /\ html # <<>>
    /\ \E k \in 1..Len(chunks) : chunks[k] = <<>>
    /\ Len(result) = Len(chunks) - 1
    /\ Len(result) >= 2

\* C7: no returned chunk is only the opening sequence of the tags open at its
\* start followed by their closing sequence.
C7_NoSkeletonChunk ==
    Returned =>
        \A k \in 1..Len(result) :
            result_log[k].pre # <<>> =>
                result[k] # get_opening_str(result_log[k].pre)
                           \o get_closing_str(result_log[k].pre)

(* ------------------------------ identity ------------------------------- *)
\* the markup holds a tag whose name is an alias (strong, em, ins, del, strike)
HasAlias(s) ==
    \E k \in 1..Len(Tokenize(s)) :
        /\ StartsWith(Tokenize(s)[k], "<")
        /\ ~TagRaises(Tokenize(s)[k])
        /\ Lower(FirstWord(CleanOf(Tokenize(s)[k]))) \in
              { <<"s", "t", "r", "o", "n", "g">>, <<"e", "m">>, <<"i", "n", "s">>,
                <<"d", "e", "l">>, <<"s", "t", "r", "i", "k", "e">> }

EndsWithAmp(s) ==
    Len(s) >= 4 /\ SubSeq(s, Len(s) - 3, Len(s)) = <<"&", "a", "m", "p">>

\* C9: no chunk ends in "&amp" with the next chunk starting in ";".
C9_EntityNotSplit ==
    Returned =>
        \A k \in 1..(Len(result) - 1) :
            ~(EndsWithAmp(result[k]) /\ StartsWith(result[k + 1], ";"))

(* ------------------------------ reopening ------------------------------ *)
\* C10: split("<b><i>alpha beta gamma</i></b>", 15) has at least two chunks,
\* each after the first beginning with "<b><i>" and each before the last
\* ending with "</i></b>".
C10_NestedReopened ==
    (Returned /\ html = NestedExample /\ max_chars = 15) =>
        /\ Len(result) >= 2
        /\ \A k \in 2..Len(result) :
              Prefix(result[k], 6) = <<"<", "b", ">", "<", "i", ">">>
        /\ \A k \in 1..(Len(result) - 1) :
              Len(result[k]) >= 8
              /\ Suffix(result[k], Len(result[k]) - 8)
                    = <<"<", "/", "i", ">", "<", "/", "b", ">">>

(* ---------------------------- cut points -------------------------------- *)
\* an iteration of the text loop that closes a chunk
CutStep == pc = "text" /\ pc' = "text" /\ chunks' # chunks

\* the characters of text that fit into the chunk
FitWindow == IF available_space > 0 THEN Prefix(text, available_space) ELSE <<>>

HasSpaceOrNewline(s) == \E k \in 1..Len(s) : s[k] \in {" ", "\n"}

\* C11 as stated: when the window of a cut text run holds a whitespace
\* character, the cut is placed immediately after a whitespace character.
C11_CutAfterWhitespace ==
    [][(CutStep /\ HasSpace(FitWindow)) =>
          /\ Len(text') < Len(text)
          /\ IsSpace(text[Len(text) - Len(text')])]_vars

\* C11 amended: when the window of a cut text run holds a space or a newline,
\* the cut is placed immediately after a space or newline, never inside a word.
C11_CutAfterSpaceOrNewline ==
    [][(CutStep /\ HasSpaceOrNewline(FitWindow)) =>
          /\ Len(text') < Len(text)
          /\ text' = Suffix(text, Len(text) - Len(text'))
          /\ text[Len(text) - Len(text')] \in {" ", "\n"}]_vars

\* a text run was just cut after a blank that followed a word, and the
\* remainder goes on with a word
C11_Witness ==
    /\ pc = "text"
    /\ chunk_parts = <<>>
    /\ chunk_log # <<>>
    /\ LET parts == chunk_log[Len(chunk_log)].parts
       IN  /\ parts # <<>>
           /\ Len(parts[Len(parts)]) >= 2
           /\ EndsWith(parts[Len(parts)], " ")
           /\ ~IsSpace(parts[Len(parts)][1])
           /\ parts[Len(parts)] \o text = Token
    /\ text # <<>>
    /\ ~IsSpace(text[1])

(* --------------------------- the tag stack ----------------------------- *)
\* the allowed tags opened and not yet closed by the first n tokens of toks,
\* as <<name, opening text>>; tokens at odd positions are text runs
RECURSIVE OpenAfter(_, _)
OpenAfter(toks, n) ==
    IF n = 0 THEN <<>>
    ELSE LET open == OpenAfter(toks, n - 1)
         IN  IF n % 2 = 1 \/ TagRaises(toks[n]) THEN open
             ELSE LET info == extract_tag_info(toks[n])
                      at == {j \in 1..Len(open) : open[j][1] = info[1]}
                  IN  IF info[1] \notin ALLOWED_TAGS THEN open
                      ELSE IF info[2]
                      THEN IF at = {} THEN open
                           ELSE [j \in 1..(Len(open) - 1) |->
                                    IF j < MaxOf(at) THEN open[j] ELSE open[j + 1]]
                      ELSE IF info[3] THEN open
                      ELSE open \o << <<info[1], toks[n]>> >>

\* the allowed tags of the normalized markup that are never closed
OpenAtEnd(s) ==
    OpenAfter(Tokenize(normalize_html(s)), Len(Tokenize(normalize_html(s))))

EndsWithSeq(s, t) ==
    Len(s) >= Len(t) /\ SubSeq(s, Len(s) - Len(t) + 1, Len(s)) = t

\* C12: the last returned chunk closes every allowed tag the input leaves
\* open, whatever max_chars is.
C12_UnclosedTagsClosed ==
    (Returned /\ result # <<>>) =>
        EndsWithSeq(result[Len(result)], get_closing_str(OpenAtEnd(html)))

(* ---------------------------- normalization ---------------------------- *)
\* what follows the first word of s
AfterFirstWord(s) ==
    LET b == MinOf({k \in 1..Len(s) : ~IsSpace(s[k])})
        after == {k \in b..Len(s) : IsSpace(s[k])}
    IN  IF after = {} THEN <<>> ELSE Suffix(s, MinOf(after) - 1)

\* the tag a tag token is to become: an alias name replaced by its canonical
\* name, the attribute text kept, any other tag unchanged
CanonicalTag(token) ==
    LET name == Lower(FirstWord(CleanOf(token)))
    IN  IF name \notin DOMAIN TAG_NORMALIZATION THEN token
        ELSE IF StartsWith(Strip(token), "/")
        THEN <<"<", "/">> \o TAG_NORMALIZATION[name] \o <<">">>
        ELSE <<"<">> \o TAG_NORMALIZATION[name]
             \o AfterFirstWord(CleanOf(token)) \o <<">">>

\* C13: every tag token is normalized to its canonical tag (alias names
\* replaced in any letter case, attribute text kept, other tags unchanged) and
\* normalize_html is idempotent.
C13_NormalizationIdempotent ==
    (pc # "start" /\ ~NormalizeRaises(html)) =>
        /\ \A k \in 1..Len(Tokenize(html)) :
              k % 2 = 0 => normalize_tag(Tokenize(html)[k])
                              = CanonicalTag(Tokenize(html)[k])
        /\ ~NormalizeRaises(normalize_html(html))
        /\ normalize_html(normalize_html(html)) = normalize_html(html)

(* ----------------------------- buffer size ----------------------------- *)
\* the buffer holds at most one real token, a tag or a word
AtomicBuffer ==
    /\ Len(chunk_parts) <= 1
    /\ \A k \in 1..Len(chunk_parts) :
          StartsWith(chunk_parts[k], "<") \/ ~HasSpace(chunk_parts[k])

\* C14: at every step the buffer plus the closing sequence of the stack is
\* within max_chars, unless the buffer is one atomic token.
C14_BufferWithinLimit ==
    pc \in {"loop", "text"} =>
        \/ Len(current_chunk) + Len(get_closing_str(tag_stack)) <= max_chars
        \/ AtomicBuffer

\* the for loop is at a tag token
AtTag ==
    /\ pc = "loop"
    /\ tk <= Len(tokens)
    /\ Token # <<>>
    /\ StartsWith(Token, "<")
    /\ ~TagRaises(Token)

\* the buffer, the tag and the closing sequence of the stack after the tag
PredictedLength ==
    Len(current_chunk) + Len(Token) + Len(get_closing_str(ApplyTag(tag_stack, Token)))

\* C15: a tag finalizes the chunk according to the predicted length taken
\* with the stack after the tag: not when it is within max_chars, and (the
\* buffer holding more than its skeleton) always when it exceeds max_chars.
C15_PredictedLength ==
    [][(AtTag /\ tk' = tk + 1) =>
          /\ PredictedLength <= max_chars => chunks' = chunks
          /\ (PredictedLength > max_chars
              /\ current_chunk # get_opening_str(tag_stack)) => chunks' # chunks]_vars

\* C16: after any prefix of tokens the tag stack is the list of allowed tags
\* opened and not yet closed in that prefix.
C16_StackMirrorsOpenTags ==
    pc \in {"loop", "text"} => tag_stack = OpenAfter(tokens, tk - 1)

\* a tag token is processed without error
TagStep == AtTag /\ tk' = tk + 1 /\ pc' = "loop"

\* the token is a closing tag whose name is on no entry of the stack
UnmatchedClosing(stack, token) ==
    /\ extract_tag_info(token)[2]
    /\ \A k \in 1..Len(stack) : stack[k][1] # extract_tag_info(token)[1]

\* C17: a closing tag that matches no entry of the stack leaves the stack as
\* it is, raises nothing, and is itself appended to the buffer.
C17_UnmatchedClosingIgnored ==
    [][(AtTag /\ UnmatchedClosing(tag_stack, Token) /\ tk' = tk + 1) =>
          /\ pc' = "loop"
          /\ tag_stack' = tag_stack
          /\ EndsWithSeq(current_chunk', Token)]_vars

\* the token just processed is an allowed closing tag that no earlier token
\* opened, met while another tag was open
C17_Witness ==
    /\ pc = "loop"
    /\ tk > 1
    /\ tag_stack # <<>>
    /\ StartsWith(tokens[tk - 1], "<")
    /\ ~TagRaises(tokens[tk - 1])
    /\ extract_tag_info(tokens[tk - 1])[1] \in ALLOWED_TAGS
    /\ UnmatchedClosing(OpenAfter(tokens, tk - 2), tokens[tk - 1])
    /\ UnmatchedClosing(tag_stack, tokens[tk - 1])
    /\ tag_stack = OpenAfter(tokens, tk - 2)
    /\ EndsWithSeq(current_chunk, tokens[tk - 1])

(* ------------------------- newline before space ------------------------ *)
\* the chunk closed by a cut of the text at index n
CutAt(n) ==
    /\ chunks' = Append(chunks, current_chunk \o SubSeq(text, 1, n)
                                \o get_closing_str(tag_stack))
    /\ text' = Suffix(text, n)
    /\ current_chunk' = get_opening_str(tag_stack)

\* C18: when the window of a cut text run holds a newline the cut is right
\* after the last newline of the window, wherever its spaces are; the last
\* space is used only when the window holds no newline.
C18_NewlinePreferred ==
    [][CutStep =>
          /\ RFind(Candidate, "\n") # -1 => CutAt(RFind(Candidate, "\n") + 1)
          /\ (RFind(Candidate, "\n") = -1 /\ RFind(Candidate, " ") # -1) =>
                CutAt(RFind(Candidate, " ") + 1)]_vars

\* a text run was just cut after a newline although a space lay further on
\* in the window
C18_Witness ==
    /\ pc = "text"
    /\ chunk_parts = <<>>
    /\ chunks # <<>>
    /\ chunk_log # <<>>
    /\ LET parts == chunk_log[Len(chunk_log)].parts
       IN  /\ parts # <<>>
           /\ EndsWith(parts[Len(parts)], "\n")
           /\ parts[Len(parts)] \o text = Token
    /\ \E j \in 1..(max_chars - Len(chunks[Len(chunks)])) :
          j <= Len(text) /\ text[j] = " "

(* --------------------------- one long word ----------------------------- *)
\* C19: when the window of a cut text run holds no space or newline, and the
\* space is below the threshold while the buffer holds more than its reopened
\* tags, the chunk is closed as it is and the whole text is kept for the next
\* chunk; otherwise the text is cut at the available space (nothing of it is
\* taken when no space is left).
C19_DeferOrHardCut ==
    [][(CutStep /\ ~HasSpaceOrNewline(Candidate)) =>
          IF available_space < MinChunk
             /\ Len(current_chunk) > Len(get_opening_str(tag_stack))
          THEN /\ text' = text
               /\ chunks' = Append(chunks, current_chunk
                                           \o get_closing_str(tag_stack))
               /\ current_chunk' = get_opening_str(tag_stack)
          ELSE CutAt(MaxOf({0, available_space}))]_vars

\* a word was first kept whole for the next chunk, behind a buffer with
\* content and less than the threshold left, and then cut at max_chars from
\* an empty buffer
C19_Witness ==
    /\ pc = "text"
    /\ chunk_parts = <<>>
    /\ text # <<>>
    /\ Len(chunk_log) >= 2
    /\ Len(chunks) = Len(chunk_log)
    /\ LET last == chunk_log[Len(chunk_log)]
           before == chunk_log[Len(chunk_log) - 1]
       IN  /\ last.pre = <<>>
           /\ Len(last.parts) = 1
           /\ last.parts[1] \o text = Token
           /\ ~HasSpaceOrNewline(last.parts[1])
           /\ Len(last.parts[1]) = max_chars
           /\ before.parts # <<>>
           /\ before.parts[Len(before.parts)] = tokens[tk - 1]
           /\ Len(chunks[Len(chunks) - 1]) > max_chars - MinChunk
           /\ Len(chunks[Len(chunks) - 1]) < max_chars

(* ------------------------- the carried remainder ----------------------- *)
\* C20: the remainder of a cut text run does not begin with a whitespace
\* character.
C20_RemainderTrimmed ==
    [][(CutStep /\ Len(text') < Len(text) /\ text' # <<>>) =>
          ~IsSpace(text'[1])]_vars

(* ------------------------------ the fast path -------------------------- *)
\* C21: when the normalized markup is no longer than max_chars the call
\* returns the normalized markup as its only chunk and never tokenizes it or
\* touches the tag stack; the length compared is the normalized one.
C21_FastPath ==
    [][(pc = "start" /\ ~NormalizeRaises(html)
          /\ Len(normalize_html(html)) <= max_chars) =>
          /\ pc' = "done"
          /\ result' = <<normalize_html(html)>>
          /\ UNCHANGED <<tokens, tk, tag_stack, chunks, current_chunk, text>>]_vars

\* markup longer than max_chars was returned whole because its normalization
\* is short enough, with a tag left open
C21_Witness ==
    /\ Returned
    /\ Len(html) > max_chars
    /\ Len(normalize_html(html)) <= max_chars
    /\ result = <<normalize_html(html)>>
    /\ OpenAtEnd(html) # <<>>

(* ====================== src/bot.py: handle_message ===================== *)
(* Telegram gives every message the date at which it was sent and delivers *)
(* the updates one at a time, oldest first (Application runs one handler   *)
(* at a time).  A handler run is two steps: up to the call of the model,   *)
(* and from the model's answer to the end; time passes and users go on     *)
(* posting while the handler awaits the model.                             *)
MaxUpdates == 2
MaxClock == 1

\* the chats of the model and their chat.type
Chats == 1..4

ChatType(c) ==
    CASE c = 1 -> "supergroup"
      [] c = 2 -> "private"
      [] c = 3 -> "group"
      [] OTHER -> "channel"

\* Telegram numbers the messages of a supergroup or channel per chat, and
\* those of the bot's private chats and basic groups from one counter
IdScope(c) == IF ChatType(c) \in {"private", "group"} THEN 0 ELSE c

TRIGGER_WORD == <<"B", "e">>

\* message.text of an update: a trigger in another letter case, plain text,
\* and no text
Texts == { <<"b", "E", "x">>, <<"x">>, <<>> }

\* s.startswith(p)
HasPrefix(s, p) == Len(s) >= Len(p) /\ SubSeq(s, 1, Len(p)) = p

\* message.text and message.text.lower().startswith(TRIGGER_WORD.lower())
IsTrigger(txt) == txt # <<>> /\ HasPrefix(Lower(txt), Lower(TRIGGER_WORD))

\* the column content of a saved message
StoredContent(txt, is_bot) ==
    IF ~is_bot /\ HasPrefix(Lower(txt), Lower(TRIGGER_WORD))
    THEN Suffix(txt, Len(TRIGGER_WORD))
    ELSE txt

\* INSERT OR REPLACE: the row in conflict on the UNIQUE column message_id is
\* deleted and the new row takes the next id
save_message_to_db(rows, rowid, msg, is_bot) ==
    {r \in rows : r.message_id # msg.message_id}
    \cup {[id |-> rowid + 1,
           message_id |-> msg.message_id,
           chat_id |-> msg.chat_id,
           content |-> StoredContent(msg.text, is_bot),
           timestamp |-> msg.date,
           is_bot |-> is_bot]}

\* SELECT * FROM messages ORDER BY timestamp ASC: rows of one timestamp come
\* in the order of the table scan, by id
RECURSIVE get_context(_)
get_context(rows) ==
    IF rows = {} THEN <<>>
    ELSE LET first == CHOOSE r \in rows :
                         \A q \in rows :
                            \/ r.timestamp < q.timestamp
                            \/ r.timestamp = q.timestamp /\ r.id <= q.id
         IN  <<first>> \o get_context(rows \ {first})

\* the history generate_gemini_response builds, one entry per row
HistoryOf(context) ==
    [k \in 1..Len(context) |->
        [role |-> IF context[k].is_bot THEN "model" ELSE "user",
         content |-> context[k].content,
         chat_id |-> context[k].chat_id,
         message_id |-> context[k].message_id]]

BotTag == <<"[", "k", "]", ":", " ">>

ResponseText == <<"o", "k">>

EmptyRequestText == <<"n", "o">>

\* f"Произошла ошибка при обращении к нейросети: {e}"
ErrorText == <<"e", "r", "r", ":", " ", "e">>

\* the updates sent to the bot so far
SentSoFar == Len(handled) + Len(updates)

\* a second passes
Tick ==
    /\ clock < MaxClock
    /\ clock' = clock + 1
    /\ UNCHANGED <<messages, last_rowid, updates, last_message_id, posted,
                   handler_pc, message, context_messages, replies, prompts,
                   handled>>
    /\ UNCHANGED split_vars

\* a user posts a message with text txt in chat c
Post(c, txt) ==
    /\ SentSoFar < MaxUpdates
    /\ last_message_id' = [last_message_id EXCEPT ![IdScope(c)] = @ + 1]
    /\ updates' = Append(updates, [message_id |-> last_message_id[IdScope(c)] + 1,
                                   chat_id |-> c, text |-> txt, date |-> clock])
    /\ posted' = posted \cup {[message_id |-> last_message_id[IdScope(c)] + 1,
                               chat_id |-> c, date |-> clock]}
    /\ UNCHANGED <<messages, last_rowid, clock, handler_pc, message,
                   context_messages, replies, prompts, handled>>
    /\ UNCHANGED split_vars

\* a user edits a message posted before: same message_id and date, new text
Edit(m, txt) ==
    /\ SentSoFar < MaxUpdates
    /\ updates' = Append(updates, [message_id |-> m.message_id,
                                   chat_id |-> m.chat_id, text |-> txt,
                                   date |-> m.date])
    /\ UNCHANGED <<messages, last_rowid, clock, last_message_id, posted,
                   handler_pc, message, context_messages, replies, prompts,
                   handled>>
    /\ UNCHANGED split_vars

\* handle_message up to "await generate_gemini_response" or to its return
HandleMessage ==
    /\ handler_pc = "idle"
    /\ updates # <<>>
    /\ updates' = Tail(updates)
    /\ LET msg == Head(updates)
           accepted == ChatType(msg.chat_id) \in {"group", "supergroup", "private"}
           is_trigger == IsTrigger(msg.text)
           saved == save_message_to_db(messages, last_rowid, msg, FALSE)
       IN  /\ handled' = Append(handled, [message_id |-> msg.message_id,
                                          chat_id |-> msg.chat_id,
                                          text |-> msg.text,
                                          date |-> msg.date,
                                          accepted |-> accepted,
                                          is_trigger |-> accepted /\ is_trigger])
           /\ IF ~accepted
              THEN UNCHANGED <<messages, last_rowid, handler_pc, message,
                               context_messages, prompts>>
              ELSE /\ messages' = saved
                   /\ last_rowid' = last_rowid + 1
                   /\ IF is_trigger
                      THEN /\ context_messages' = get_context(saved)
                           /\ prompts' =
                                 IF get_context(saved) = <<>> THEN prompts
                                 ELSE Append(prompts,
                                             [message_id |-> msg.message_id,
                                              chat_id |-> msg.chat_id,
                                              history |-> HistoryOf(get_context(saved))])
                           /\ message' = msg
                           /\ handler_pc' = "awaiting"
                      ELSE UNCHANGED <<handler_pc, message, context_messages,
                                       prompts>>
    /\ UNCHANGED <<clock, last_message_id, posted, replies>>
    /\ UNCHANGED split_vars

\* message.reply_text(f"[karachur_bot]: {response_text}") and the save of the
\* reply, which ends the handler
Respond(response_text) ==
    LET bot_reply == [message_id |-> last_message_id[IdScope(message.chat_id)] + 1,
                      chat_id |-> message.chat_id,
                      text |-> BotTag \o response_text,
                      date |-> clock]
    IN  /\ last_message_id' =
              [last_message_id EXCEPT ![IdScope(message.chat_id)] = @ + 1]
        /\ replies' = Append(replies, [message_id |-> bot_reply.message_id,
                                       chat_id |-> bot_reply.chat_id,
                                       reply_to |-> message.message_id,
                                       text |-> bot_reply.text,
                                       date |-> bot_reply.date])
        /\ messages' = save_message_to_db(messages, last_rowid, bot_reply, TRUE)
        /\ last_rowid' = last_rowid + 1
        /\ handler_pc' = "idle"
        /\ message' = NoMessage
        /\ context_messages' = <<>>
        /\ UNCHANGED <<clock, updates, posted, prompts, handled>>
        /\ UNCHANGED split_vars

\* generate_gemini_response returns the model's text (or refuses an empty
\* history)
ModelReturns ==
    /\ handler_pc = "awaiting"
    /\ Respond(IF context_messages = <<>> THEN EmptyRequestText ELSE ResponseText)

ModelRaisesUncaught ==
    /\ handler_pc = "awaiting"
    /\ context_messages # <<>>
    /\ handler_pc' = "idle"
    /\ message' = NoMessage
    /\ context_messages' = <<>>
    /\ UNCHANGED <<messages, last_rowid, clock, updates, last_message_id, posted,
                   replies, prompts, handled>>
    /\ UNCHANGED split_vars

\* the call of the model raises: the except branch makes the error the reply
ModelRaises ==
    /\ handler_pc = "awaiting"
    /\ context_messages # <<>>
    /\ Respond(ErrorText)

BotInit ==
    /\ html = <<>>
    /\ max_chars = 1
    /\ pc = "start"
    /\ tokens = <<>>
    /\ tk = 1
    /\ current_chunk = <<>>
    /\ tag_stack = <<>>
    /\ chunks = <<>>
    /\ text = <<>>
    /\ result = <<>>
    /\ spins = 0
    /\ chunk_pre = <<>>
    /\ chunk_parts = <<>>
    /\ chunk_log = <<>>
    /\ result_log = <<>>
    /\ BotStart

BotNext ==
    \/ Tick
    \/ \E c \in Chats, txt \in Texts : Post(c, txt)
    \/ \E m \in posted, txt \in Texts : Edit(m, txt)
    \/ HandleMessage
    \/ ModelReturns
    \/ ModelRaises

BotSpec == BotInit /\ [][BotNext]_vars

(* ========================= properties of the bot ======================= *)
\* an update handle_message answers: its chat is private, a group or a
\* supergroup and its text starts with the trigger word
AsksBot(h) ==
    /\ ChatType(h.chat_id) \in {"private", "group", "supergroup"}
    /\ HasPrefix(Lower(h.text), Lower(TRIGGER_WORD))

Accepted(h) == ChatType(h.chat_id) \in {"private", "group", "supergroup"}

Triggers == SelectSeq(handled, AsksBot)

\* the row of message (chat, id) as a user or bot message is in rows
Stored(rows, chat, id, bot) ==
    \E r \in rows : r.chat_id = chat /\ r.message_id = id /\ r.is_bot = bot

\* every finished handler run on a trigger sent one reply, to its own message
OneReplyPerTrigger ==
    /\ Len(replies) = Len(Triggers) - (IF handler_pc = "awaiting" THEN 1 ELSE 0)
    /\ \A j \in 1..Len(replies) :
          /\ replies[j].chat_id = Triggers[j].chat_id
          /\ replies[j].reply_to = Triggers[j].message_id

\* the step that sends a reply stores it as a bot message
ReplyStored ==
    replies' # replies =>
        /\ Len(replies') = Len(replies) + 1
        /\ LET r == replies'[Len(replies')]
           IN  \E row \in messages' :
                  /\ row.is_bot
                  /\ row.chat_id = r.chat_id
                  /\ row.message_id = r.message_id
                  /\ row.content = r.text

\* the step that takes an update stores the message; without the trigger
\* nothing is sent and the handler ends
UpdateStored ==
    handled' # handled =>
        LET h == handled'[Len(handled')]
        IN  /\ Accepted(h) => Stored(messages', h.chat_id, h.message_id, FALSE)
            /\ ~AsksBot(h) => replies' = replies /\ handler_pc' = "idle"
            /\ AsksBot(h) => handler_pc' = "awaiting"

C23_PromptIsTrigger ==
    \A k \in 1..Len(prompts) :
        LET h == prompts[k].history
        IN  /\ h[Len(h)].chat_id = prompts[k].chat_id
            /\ h[Len(h)].message_id = prompts[k].message_id
            /\ h[Len(h)].role = "user"

\* C24: the history sent to the model for a trigger holds only messages of
\* the chat of that trigger.
C24_ContextOfOneChat ==
    \A k \in 1..Len(prompts) :
        \A j \in 1..Len(prompts[k].history) :
            prompts[k].history[j].chat_id = prompts[k].chat_id

\* C25: the table holds exactly one row for every message (chat_id,
\* message_id) that was saved, user message or reply.
C25_RowPerMessage ==
    /\ \A k \in 1..Len(handled) :
          Accepted(handled[k]) =>
              Cardinality({r \in messages :
                              r.chat_id = handled[k].chat_id
                              /\ r.message_id = handled[k].message_id}) = 1
    /\ \A j \in 1..Len(replies) :
          Cardinality({r \in messages :
                          r.chat_id = replies[j].chat_id
                          /\ r.message_id = replies[j].message_id}) = 1

====
